---- MODULE Spec2Model ----
(***************************************************************************)
(* Model of the telemetry ingest / query path of the sensor dashboard      *)
(* (telemetry/views.py, telemetry/models.py, sensi_hub/settings.py).       *)
(*                                                                         *)
(* The store is the three tables SensorType, Sensor and Reading.  One      *)
(* action models one whole HTTP handler call.  The variable `last` records *)
(* the last request with its response, and `prev` the store as it was      *)
(* before that request, so that pre/post conditions of a handler are state *)
(* predicates.                                                             *)
(***************************************************************************)
EXTENDS Integers, Sequences, FiniteSets, TLC

VARIABLES
    sensorTypes,    \* rows of SensorType: the set of (unique) type names
    sensors,        \* rows of Sensor: slug -> [name, sensor_type, location]
    readings,       \* rows of Reading in insertion order (id = index)
    now,            \* the server clock, as a UTC instant in half-hour ticks
    last,           \* the last request handled and its response
    prev,           \* the store before the last request
    users,          \* rows of auth.User: username -> [email, password, is_active, by]
    session,        \* the browser session followed: [user, event]
    pending,        \* registration requests between form validation and save
    inflight        \* API requests under way: request id -> its position and locals

vars == <<sensorTypes, sensors, readings, now, last, prev, users, session, pending, inflight>>

\* The state of the accounts, which the telemetry endpoints leave alone.
accVars == <<users, session, pending>>

\* No account, nobody signed in, no registration under way.
NoAccounts ==
    /\ users = [u \in {} |-> 0]
    /\ session = [user |-> "", event |-> "none"]
    /\ pending = {}

(***************************************************************************)
(* Bounds of the model.                                                    *)
(***************************************************************************)
MaxKeys == 2        \* keys present in a mapping given to _extract_values
MaxReadings == 2    \* Reading rows the store may hold
MaxClock == 3       \* last clock tick of the model's time window
FoldAt == 1         \* the tick at which daylight-saving time ends

(***************************************************************************)
(* JSON values as Python sees them after json.loads.  A value inside a     *)
(* measurement mapping is [t, n]: t the Python type, n its content:       *)
(*   none        None (JSON null, or what dict.get gives for a missing key)*)
(*   num         the number n                                              *)
(*   bool        n = 1 for True, 0 for False                               *)
(*   str         a string: n = 0 the empty string "", n = 1 the text "abc" *)
(*   numstr      the string holding the decimal digits of n, e.g. "7"      *)
(*   list, dict  a container of length n                                   *)
(*   float       a Python float (results of float())                       *)
(*   raise       an exception left the expression                          *)
(***************************************************************************)
V(t, n) == [t |-> t, n |-> n]
None == V("none", 0)
Raised == V("raise", 0)

\* Python truthiness, as the `or` chains of the views use it.
Truthy(x) ==
    CASE x.t = "none"   -> FALSE
      [] x.t = "num"    -> x.n # 0
      [] x.t = "float"  -> x.n # 0
      [] x.t = "bool"   -> x.n = 1
      [] x.t = "str"    -> x.n # 0
      [] x.t = "numstr" -> TRUE
      [] x.t = "list"   -> x.n # 0
      [] x.t = "dict"   -> x.n # 0
      [] x.t = "map"    -> DOMAIN x.m # {}
      [] OTHER          -> TRUE

\* Python's `a or b`: a when a is truthy, else b (whatever b is).
Or(a, b) == IF Truthy(a) THEN a ELSE b

\* A top-level mapping (a Python dict with known keys): m is a function from
\* the keys present to the values under them.
Map(m) == [t |-> "map", n |-> 0, m |-> m]
EmptyMap == Map([k \in {} |-> None])
\* A top-level value that is not a mapping.
NonMap(t, n) == [t |-> t, n |-> n, m |-> [k \in {} |-> None]]
IsDict(d) == d.t = "map"

\* dict.get(key): the value under key, None when the key is missing.
Get(d, key) == IF key \in DOMAIN d.m THEN d.m[key] ELSE None

\* Python's float(x): numbers, booleans and numeric strings convert;
\* "" and "abc" raise ValueError, containers raise TypeError.
Float(x) ==
    CASE x.t = "num"    -> V("float", x.n)
      [] x.t = "float"  -> x
      [] x.t = "bool"   -> V("float", x.n)
      [] x.t = "numstr" -> V("float", x.n)
      [] OTHER          -> Raised

\* A mutation of _safe_float: the try/except is missing.
SafeFloatNoCatch(x) == IF x.t # "none" THEN Float(x) ELSE None

\* _safe_float: float(x) if x is not None else None; any exception -> None.
SafeFloat(x) ==
    IF x.t # "none"
    THEN (IF Float(x) = Raised THEN None ELSE Float(x))
    ELSE None

TempKeys == <<"temperature_c", "temp_c", "temperature", "temp">>
HumKeys == <<"humidity_percent", "humidity", "hum">>
WTempKeys == <<"water_temperature_c", "water_temp_c", "water_temperature", "wtemp">>

Range(s) == {s[i] : i \in DOMAIN s}

\* data.get(k1) or data.get(k2) or ... : evaluated left to right.
RECURSIVE OrChain(_, _, _)
OrChain(d, keys, i) ==
    IF i = Len(keys) THEN Get(d, keys[i])
    ELSE Or(Get(d, keys[i]), OrChain(d, keys, i + 1))

\* _extract_values(data): (temperature, humidity, water temperature).
ExtractValues(d) ==
    IF ~IsDict(d) THEN [temp |-> None, hum |-> None, wtemp |-> None]
    ELSE [temp  |-> SafeFloat(OrChain(d, TempKeys, 1)),
          hum   |-> SafeFloat(OrChain(d, HumKeys, 1)),
          wtemp |-> SafeFloat(OrChain(d, WTempKeys, 1))]


(***************************************************************************)
(* Time.  settings.py: TIME_ZONE = "Europe/Berlin", USE_TZ = False.        *)
(* A datetime is [wall, aware, off]: the wall-clock reading in ticks, and, *)
(* for an aware datetime, its UTC offset in ticks (instant = wall - off).  *)
(* The model's time window holds the end of daylight-saving time: before   *)
(* tick FoldAt the zone is at UTC+2 (CEST), from FoldAt on at UTC+1 (CET). *)
(***************************************************************************)
USE_TZ == FALSE
DstOffset == 4      \* UTC+2 in half-hour ticks
StdOffset == 2      \* UTC+1 in half-hour ticks

\* The UTC offset of Europe/Berlin at a UTC instant.
LocalOffset(utc) == IF utc < FoldAt THEN DstOffset ELSE StdOffset

Naive(w) == [wall |-> w, aware |-> FALSE, off |-> 0]
Aware(w, o) == [wall |-> w, aware |-> TRUE, off |-> o]

\* django.utils.timezone.now(): aware UTC under USE_TZ, else the naive local
\* wall clock (datetime.now()).
TimezoneNowIn(useTz, utc) == IF useTz THEN Aware(utc, 0) ELSE Naive(utc + LocalOffset(utc))
TimezoneNow(utc) == TimezoneNowIn(USE_TZ, utc)

\* timezone.make_aware(naive, current zone): a wall time that occurs twice
\* (the repeated hour) is taken as its first occurrence (fold = 0).
MakeAware(dt) == Aware(dt.wall, IF dt.wall < FoldAt + DstOffset THEN DstOffset ELSE StdOffset)

\* timezone.localtime(aware, current zone).
LocalTime(dt) ==
    LET utc == dt.wall - dt.off
    IN  Aware(utc + LocalOffset(utc), LocalOffset(utc))

\* datetime.isoformat(): the wall clock, followed by the offset if aware.
\* The ISO string is modelled as [wall, zoned, off].
IsoFormatNoOffset(dt) == [wall |-> dt.wall, zoned |-> FALSE, off |-> 0]
IsoFormat(dt) == [wall |-> dt.wall, zoned |-> dt.aware, off |-> IF dt.aware THEN dt.off ELSE 0]

\* _to_local_iso(ts), under either value of settings.USE_TZ
ToLocalIsoIn(useTz, ts) ==
    IF useTz
    THEN IsoFormat(LocalTime(IF ~ts.aware THEN MakeAware(ts) ELSE ts))
    ELSE IsoFormat(ts)

\* _to_local_iso(ts) as configured
ToLocalIso(ts) == ToLocalIsoIn(USE_TZ, ts)

NoIso == [wall |-> 0 - 1, zoned |-> FALSE, off |-> 0]

(***************************************************************************)
(* Text fields of a payload or a query string.  ABSENT stands for a key    *)
(* that is missing (dict.get gives None).                                  *)
(***************************************************************************)
ABSENT == "<missing>"
StrTruthy(s) == s \notin {ABSENT, ""}
OrStr(a, b) == IF StrTruthy(a) THEN a ELSE b

(***************************************************************************)
(* The store.                                                              *)
(***************************************************************************)
NoSensors == [s \in {} |-> 0]
Store == [types |-> sensorTypes, sensors |-> sensors, readings |-> readings]

\* SensorType.objects.get_or_create(name=st_name)
GetOrCreateType(st, name) == [st EXCEPT !.types = @ \cup {name}]

\* Sensor.objects.get_or_create(slug=slug, defaults={name, sensor_type, location})
GetOrCreateSensor(st, slug, name, stype, location) ==
    IF slug \in DOMAIN st.sensors THEN st
    ELSE [st EXCEPT !.sensors = (slug :> [name |-> name, sensor_type |-> stype,
                                          location |-> location]) @@ @]

\* A mutation of the metadata comparison: the type change is forgotten.
MergeSensorNoType(row, name, stype, location) ==
    [name        |-> IF StrTruthy(name) /\ row.name # name THEN name ELSE row.name,
     sensor_type |-> row.sensor_type,
     location    |-> IF StrTruthy(location) /\ row.location # location
                     THEN location ELSE row.location]

\* views.py 231-240: the in-memory sensor after the three comparisons.
MergeSensor(row, name, stype, location) ==
    [name        |-> IF StrTruthy(name) /\ row.name # name THEN name ELSE row.name,
     sensor_type |-> IF row.sensor_type # stype THEN stype ELSE row.sensor_type,
     location    |-> IF StrTruthy(location) /\ row.location # location
                     THEN location ELSE row.location]

\* A mutation: save() is called on every ingest for an existing sensor.
ChangedAlways(row, name, stype, location) == TRUE

\* views.py 231-243: the `changed` flag.
Changed(row, name, stype, location) ==
    \/ row.sensor_type # stype
    \/ StrTruthy(location) /\ row.location # location
    \/ StrTruthy(name) /\ row.name # name

\* sensor.save(update_fields=["sensor_type", "location", "name"])
SaveSensor(st, slug, row) == [st EXCEPT !.sensors[slug] = row]

\* A mutation: timestamp=dt is not passed, and the column default reads the
\* clock again, later.
CreateReadingLaterTs(st, slug, data, dt) ==
    [st EXCEPT !.readings = Append(@, [sensor |-> slug, data |-> data,
                                       timestamp |-> [dt EXCEPT !.wall = @ + 1]])]

\* Reading.objects.create(sensor=sensor, data=data, timestamp=dt)
CreateReading(st, slug, data, dt) ==
    [st EXCEPT !.readings = Append(@, [sensor |-> slug, data |-> data, timestamp |-> dt])]

\* A mutation of transaction.atomic(): every statement commits on its own.
AtomicAutocommit(before, working, failed) == working

\* with transaction.atomic(): the block's writes are committed together when
\* it ends normally and rolled back when an exception (or a crash) ends it.
Atomic(before, working, failed) == IF failed THEN before ELSE working


(***************************************************************************)
(* Requests.                                                               *)
(***************************************************************************)
NoData == NonMap("none", 0)
NoPayload == [slug |-> ABSENT, sensor |-> ABSENT, sensor_slug |-> ABSENT,
              sensor_name |-> ABSENT, sensor_type |-> ABSENT, location |-> ABSENT,
              data |-> NoData]
\* A request body: empty, not valid JSON ("malformed"), bytes that are not
\* valid UTF-8 ("undecodable"), or a JSON text whose top-level value is of
\* type `top` and, when it is an object, has the fields p.
Body(kind, top, p) == [kind |-> kind, top |-> top, p |-> p]
NoBody == Body("empty", "object", NoPayload)
NoQuery == [slug |-> ABSENT, sensor |-> ABSENT, sensor_slug |-> ABSENT, id |-> ABSENT]
NoOut == [temp |-> None, hum |-> None, wtemp |-> None]

\* The record kept of a request: what was asked and what was answered.
\* status 0 stands for no response at all (the process died).
Idle(op) ==
    [op |-> op, body |-> NoBody, query |-> NoQuery, fail |-> 0, crash |-> FALSE,
     status |-> 0, raised |-> FALSE, error |-> "", id |-> 0, timestamp |-> NoIso,
     slug |-> "", temperature |-> None, humidity |-> None,
     created |-> FALSE, saved |-> FALSE, data |-> NoData, out |-> NoOut]

\* json.loads(request.body or "{}")
JsonLoads(body) ==
    CASE body.kind = "empty"       -> [err |-> "", top |-> "object", p |-> NoPayload]
      [] body.kind = "malformed"   -> [err |-> "JSONDecodeError", top |-> "", p |-> NoPayload]
      [] body.kind = "undecodable" -> [err |-> "UnicodeDecodeError", top |-> "", p |-> NoPayload]
      [] OTHER                     -> [err |-> "", top |-> body.top, p |-> body.p]

\* views.py 204-208: the fields read from the payload, with their fallbacks.
PayloadSlug(p) == OrStr(p.slug, OrStr(p.sensor, p.sensor_slug))
PayloadName(p) == OrStr(p.sensor_name, PayloadSlug(p))
PayloadType(p) == OrStr(p.sensor_type, "Generic")
PayloadLocation(p) == OrStr(p.location, "")
PayloadData(p) == Or(p.data, EmptyMap)

\* views.py 219-248: the statements of the transaction on store st.  fail
\* names the statement at which persistence fails (0: none): 1 the type
\* get_or_create, 2 the sensor get_or_create, 3 sensor.save, 4 the Reading
\* insert, 5 the commit when the block is left.  A statement that is not
\* executed cannot fail.
Txn(st, p, dt, fail) ==
    LET slug     == PayloadSlug(p)
        name     == PayloadName(p)
        stName   == PayloadType(p)
        location == PayloadLocation(p)
        s1       == GetOrCreateType(st, stName)
        existed  == slug \in DOMAIN s1.sensors
        s2       == GetOrCreateSensor(s1, slug, name, stName, location)
        row      == s2.sensors[slug]
        chg      == existed /\ Changed(row, name, stName, location)
        s3       == IF chg THEN SaveSensor(s2, slug, MergeSensor(row, name, stName, location))
                    ELSE s2
        s4       == CreateReading(s3, slug, PayloadData(p), dt)
        failed   == fail \in {1, 2, 4, 5} \/ (fail = 3 /\ chg)
        working  == CASE fail = 1        -> st
                      [] fail = 2        -> s1
                      [] fail = 3 /\ chg -> s2
                      [] fail = 4        -> s3
                      [] OTHER           -> s4
    IN  [store   |-> Atomic(st, working, failed),
         failed  |-> failed,
         created |-> ~existed /\ fail \notin {1, 2},
         saved   |-> chg /\ fail \notin {1, 2, 3},
         id      |-> Len(s4.readings),
         dt      |-> dt]

\* The response of ingest_view to a POST, and the store it leaves.
Response(st, status, error) ==
    [store |-> st, status |-> status, raised |-> FALSE, error |-> error, id |-> 0,
     timestamp |-> NoIso, created |-> FALSE, saved |-> FALSE]

PostResult(st, clock, body, fail, crash) ==
    LET parsed == JsonLoads(body)
        p      == parsed.p
    IN  CASE parsed.err = "JSONDecodeError" ->
               Response(st, 400, "invalid json")
          [] parsed.err = "UnicodeDecodeError" ->
               \* not a JSONDecodeError: the except clause does not catch it
               [Response(st, 500, "") EXCEPT !.raised = TRUE]
          [] parsed.err = "" /\ parsed.top # "object" ->
               \* payload.get on a list, str, number, bool or None: AttributeError
               [Response(st, 500, "") EXCEPT !.raised = TRUE]
          [] parsed.err = "" /\ parsed.top = "object" /\ ~StrTruthy(PayloadSlug(p)) ->
               Response(st, 400, "slug required")
          [] parsed.err = "" /\ parsed.top = "object" /\ StrTruthy(PayloadSlug(p))
                /\ ~IsDict(PayloadData(p)) ->
               Response(st, 400, "data must be object")
          [] OTHER ->
               LET t == Txn(st, p, TimezoneNow(clock), fail)
               IN  IF t.failed
                   THEN [Response(t.store, IF crash THEN 0 ELSE 500, "ingest failed")
                            EXCEPT !.created = t.created, !.saved = t.saved]
                   ELSE [Response(t.store, 200, "") EXCEPT
                            !.id = t.id, !.timestamp = ToLocalIso(t.dt),
                            !.created = t.created, !.saved = t.saved]

\* Whether the POST gets as far as the transaction (and so reads the clock
\* and may add a row).
ReachesTxn(body) ==
    LET parsed == JsonLoads(body)
    IN  /\ parsed.err = ""
        /\ parsed.top = "object"
        /\ StrTruthy(PayloadSlug(parsed.p))
        /\ IsDict(PayloadData(parsed.p))

\* ingest_view, request.method == "POST"
IngestPost(body, fail, crash) ==
    /\ ReachesTxn(body) => (Len(readings) < MaxReadings /\ now <= MaxClock)
    /\ ~ReachesTxn(body) => (fail = 0 /\ ~crash)
    /\ crash => fail # 0
    /\ LET r == PostResult(Store, now, body, fail, crash)
       IN  /\ sensorTypes' = r.store.types
           /\ sensors' = r.store.sensors
           /\ readings' = r.store.readings
           /\ now' = IF ReachesTxn(body) THEN now + 1 ELSE now
           /\ last' = [Idle("POST") EXCEPT
                          !.body = body, !.fail = fail, !.crash = crash,
                          !.status = r.status, !.raised = r.raised, !.error = r.error,
                          !.id = r.id, !.timestamp = r.timestamp,
                          !.created = r.created, !.saved = r.saved]
           /\ prev' = Store
    /\ UNCHANGED <<accVars, inflight>>


\* _get_query_slug(request)
GetQuerySlug(q) == OrStr(q.slug, OrStr(q.sensor, OrStr(q.sensor_slug, q.id)))

\* The position of a datetime on the time line the database orders by.
TsKey(dt) == dt.wall - dt.off

\* A mutation: the Readings are not narrowed to the sensor.
ReadingsOfAny(st, slug) == DOMAIN st.readings

\* The ids of the Readings of the sensor with this slug (sensor.readings).
ReadingsOf(st, slug) == {i \in DOMAIN st.readings : st.readings[i].sensor = slug}

\* sensor.readings.order_by("-timestamp").first(): a row with the greatest
\* timestamp; among rows with equal timestamps the database's order is not
\* fixed, so any of them may come first.
Latest(st, slug) ==
    {i \in ReadingsOf(st, slug) :
        \A j \in ReadingsOf(st, slug) :
            TsKey(st.readings[j].timestamp) <= TsKey(st.readings[i].timestamp)}

\* _normalize_reading(r): _extract_values(r.data or {}) and the timestamp.
NormalizeReading(r) ==
    LET e == ExtractValues(Or(r.data, EmptyMap))
    IN  [slug |-> r.sensor, temperature |-> e.temp, humidity |-> e.hum,
         timestamp |-> ToLocalIso(r.timestamp)]

\* ingest_view, request.method == "GET"
IngestGet(q) ==
    LET slug == GetQuerySlug(q)
        ask  == [Idle("GET") EXCEPT !.query = q]
    IN  /\ \/ /\ ~StrTruthy(slug)
              /\ last' = [ask EXCEPT !.status = 400, !.error = "slug required"]
           \/ /\ StrTruthy(slug)
              /\ slug \notin DOMAIN sensors
              /\ last' = [ask EXCEPT !.status = 404, !.error = "sensor not found"]
           \/ /\ StrTruthy(slug)
              /\ slug \in DOMAIN sensors
              /\ Latest(Store, slug) = {}
              /\ last' = [ask EXCEPT !.status = 404, !.error = "no data"]
           \/ /\ StrTruthy(slug)
              /\ slug \in DOMAIN sensors
              /\ \E i \in Latest(Store, slug) :
                    LET n == NormalizeReading(readings[i])
                    IN  last' = [ask EXCEPT !.status = 200, !.id = i, !.slug = n.slug,
                                    !.temperature = n.temperature,
                                    !.humidity = n.humidity,
                                    !.timestamp = n.timestamp]
        /\ prev' = Store
        /\ UNCHANGED <<sensorTypes, sensors, readings, now>>
        /\ UNCHANGED <<accVars, inflight>>

\* The admin site (admin.py registers Sensor): a Sensor row added by hand,
\* of an existing type; it has no Reading yet.
AdminAddSensor(slug, name, stype, location) ==
    /\ slug \notin DOMAIN sensors
    /\ stype \in sensorTypes
    /\ sensors' = (slug :> [name |-> name, sensor_type |-> stype, location |-> location])
                  @@ sensors
    /\ last' = Idle("admin")
    /\ prev' = Store
    /\ UNCHANGED <<sensorTypes, readings, now>>
    /\ UNCHANGED <<accVars, inflight>>

\* Time passes between two requests.
Tick ==
    /\ now < MaxClock
    /\ now' = now + 1
    /\ last' = Idle("tick")
    /\ prev' = Store
    /\ UNCHANGED <<sensorTypes, sensors, readings>>
    /\ UNCHANGED <<accVars, inflight>>

(***************************************************************************)
(* Inputs.                                                                 *)
(***************************************************************************)
Slugs == {"raum", "wasser"}
DataA == Map("temperature_c" :> V("num", 22) @@ "humidity_percent" :> V("num", 40))
DataB == Map("temp_c" :> V("num", 5) @@ "temperature" :> V("num", 99))

\* Well-formed payloads: a slug, optional metadata, a measurement mapping.
\* Sensor "raum" is sent with every combination of metadata, "wasser" bare.
MetaBodies ==
    {Body("json", "object",
          [NoPayload EXCEPT !.slug = "raum", !.sensor_name = n, !.sensor_type = t,
                            !.location = l, !.data = d]) :
        n \in {ABSENT, "Kueche"}, t \in {ABSENT, "DHT22"},
        l \in {ABSENT, "Lab"}, d \in {DataA, DataB}}
    \cup {Body("json", "object", [NoPayload EXCEPT !.slug = "wasser", !.data = DataA])}

\* The payloads sent while persistence may fail.
FailBodies ==
    {Body("json", "object",
          [NoPayload EXCEPT !.slug = "raum", !.sensor_name = n, !.sensor_type = t,
                            !.location = l, !.data = DataA]) :
        n \in {ABSENT, "Kueche"}, t \in {ABSENT, "DHT22"}, l \in {ABSENT, "Lab"}}

\* What the `data` field may hold: nothing, mappings, and values that are
\* not mappings (strings, arrays, numbers, booleans; empty/zero or not).
DataShapes ==
    {NoData, EmptyMap, DataA}
    \cup {NonMap(t, n) : t \in {"str", "list", "num", "bool"}, n \in {0, 1}}

\* How the slug may be given: not at all, empty, or under one of the three keys.
SlugShapes ==
    {NoPayload,
     [NoPayload EXCEPT !.slug = ""],
     [NoPayload EXCEPT !.slug = "raum"],
     [NoPayload EXCEPT !.sensor = "raum"],
     [NoPayload EXCEPT !.sensor_slug = "raum"]}

\* Bodies of every shape.
ShapeBodies ==
    {Body("empty", "object", NoPayload), Body("malformed", "", NoPayload),
     Body("undecodable", "", NoPayload)}
    \cup {Body("json", top, NoPayload) : top \in {"array", "string", "number", "bool", "null"}}
    \cup {Body("json", "object", [p EXCEPT !.data = d]) : p \in SlugShapes, d \in DataShapes}

Queries ==
    {NoQuery,
     [NoQuery EXCEPT !.slug = ""],
     [NoQuery EXCEPT !.slug = "raum"],
     [NoQuery EXCEPT !.slug = "wasser"],
     [NoQuery EXCEPT !.sensor = "raum"],
     [NoQuery EXCEPT !.id = "wasser"]}

Init ==
    /\ sensorTypes = {}
    /\ sensors = NoSensors
    /\ readings = <<>>
    /\ now = 0
    /\ last = Idle("init")
    /\ prev = [types |-> {}, sensors |-> NoSensors, readings |-> <<>>]
    /\ NoAccounts
    /\ inflight = <<>>

Next ==
    \/ \E b \in MetaBodies : IngestPost(b, 0, FALSE)
    \/ \E q \in Queries : IngestGet(q)
    \/ \E s \in Slugs, t \in sensorTypes : AdminAddSensor(s, "Kueche", t, "")
    \/ Tick

Spec == Init /\ [][Next]_vars

\* Ingest while persistence may fail, or the process die, at any statement.
NextFail == \E b \in FailBodies, f \in 0..5, c \in BOOLEAN : IngestPost(b, f, c)

SpecFail == Init /\ [][NextFail]_vars

\* Ingest of bodies of every shape.
NextShape == \E b \in ShapeBodies : IngestPost(b, 0, FALSE)

SpecShape == Init /\ [][NextShape]_vars

(***************************************************************************)
(* _extract_values on its own: the input is drawn from the mappings with   *)
(* at most MaxKeys of the eleven keys present, and from non-mappings.      *)
(***************************************************************************)
Keys == Range(TempKeys) \cup Range(HumKeys) \cup Range(WTempKeys)
Values ==
    {None, V("num", 0), V("num", 5), V("num", 99), V("str", 0), V("str", 1),
     V("numstr", 7), V("bool", 0), V("list", 1)}
ExtractInputs ==
    {Map(m) : m \in UNION {[S -> Values] : S \in {T \in SUBSET Keys : Cardinality(T) <= MaxKeys}}}
    \cup {NonMap(t, n) : t \in {"none", "str", "list", "num", "bool"}, n \in {0, 1}}

InitExtract ==
    /\ sensorTypes = {}
    /\ sensors = NoSensors
    /\ readings = <<>>
    /\ now = 0
    /\ \E d \in ExtractInputs : last = [Idle("input") EXCEPT !.data = d]
    /\ prev = [types |-> {}, sensors |-> NoSensors, readings |-> <<>>]
    /\ NoAccounts
    /\ inflight = <<>>

\* One call of _extract_values on the input drawn.
Extract ==
    /\ last.op = "input"
    /\ last' = [last EXCEPT !.op = "extract", !.out = ExtractValues(last.data)]
    /\ UNCHANGED <<sensorTypes, sensors, readings, now, prev>>
    /\ UNCHANGED <<accVars, inflight>>

NextExtract == Extract

SpecExtract == InitExtract /\ [][NextExtract]_vars


(***************************************************************************)
(* Properties.                                                             *)
(***************************************************************************)
LastP == last.body.p
LastSlug == PayloadSlug(LastP)
\* The last request was a POST that passed validation and met no failure.
ValidPost == last.op = "POST" /\ ReachesTxn(last.body) /\ last.fail = 0
NewestReading == readings[Len(readings)]
OneReadingAdded ==
    /\ Len(readings) = Len(prev.readings) + 1
    /\ SubSeq(readings, 1, Len(prev.readings)) = prev.readings

\* C1: after an ingest POST with valid input whose slug is not yet stored,
\* the SensorType named in the payload (default "Generic") exists, a Sensor
\* with the slug exists and references that type, exactly one Reading was
\* added, and the response's timestamp is the wire form of the timestamp
\* stored on that Reading.
C1_NewSlugCreatesAll ==
    (ValidPost /\ LastSlug \notin DOMAIN prev.sensors) =>
        /\ last.status = 200
        /\ PayloadType(LastP) \in sensorTypes
        /\ LastSlug \in DOMAIN sensors
        /\ sensors[LastSlug].sensor_type = PayloadType(LastP)
        /\ OneReadingAdded
        /\ NewestReading.sensor = LastSlug
        /\ last.id = Len(readings)
        /\ last.timestamp = ToLocalIso(NewestReading.timestamp)

\* A second sensor is created, of the default type, in a store that already
\* holds a reading.
C1_Witness ==
    /\ ValidPost
    /\ LastSlug \notin DOMAIN prev.sensors
    /\ prev.readings # <<>>
    /\ LastP.sensor_type = ABSENT
    /\ last.status = 200
    /\ "Generic" \in sensorTypes

\* The stored Sensor equals the payload's name, type and location.
SameMetadata ==
    /\ LastSlug \in DOMAIN prev.sensors
    /\ prev.sensors[LastSlug] = [name |-> PayloadName(LastP),
                                 sensor_type |-> PayloadType(LastP),
                                 location |-> PayloadLocation(LastP)]

\* C2: an ingest POST for an existing slug whose name, type and location
\* equal the stored ones writes nothing to the Sensor row and appends
\* exactly one Reading for that sensor.
C2_SameMetadataNoWrite ==
    (ValidPost /\ SameMetadata) =>
        /\ last.status = 200
        /\ ~last.saved
        /\ ~last.created
        /\ sensors = prev.sensors
        /\ sensorTypes = prev.types
        /\ OneReadingAdded
        /\ NewestReading.sensor = LastSlug

C2_Witness ==
    /\ ValidPost
    /\ SameMetadata
    /\ prev.sensors[LastSlug].location = "Lab"
    /\ prev.sensors[LastSlug].sensor_type = "DHT22"
    /\ Len(readings) = 2

\* The payload of the last POST has a `data` field that is not a mapping.
DataNotMapping ==
    /\ last.op = "POST"
    /\ last.body.kind = "json"
    /\ last.body.top = "object"
    /\ LastP.data # NoData
    /\ ~IsDict(LastP.data)

\* C3: an ingest POST whose `data` is present and not a mapping (a string,
\* array, number or boolean, empty or not) is answered 400 and changes no row.
C3_NonMappingDataRejected ==
    DataNotMapping => (last.status = 400 /\ Store = prev)

\* The body of the last POST is no structured payload carrying a slug.
NoSlugPayload ==
    /\ last.op = "POST"
    /\ \/ last.body.kind \in {"malformed", "undecodable"}
       \/ last.body.kind = "json" /\ last.body.top # "object"
       \/ last.body.kind = "empty"
       \/ last.body.kind = "json" /\ last.body.top = "object" /\ ~StrTruthy(LastSlug)

\* C4: an ingest POST whose body is unparseable, or parses to something that
\* is not a mapping, or is a mapping without a slug, is answered with a
\* structured 400, lets no exception out of the handler and leaves the
\* store unchanged.
C4_BadBodyRejected ==
    NoSlugPayload => (last.status = 400 /\ ~last.raised /\ Store = prev)

\* A statement of the last POST's transaction failed.
PersistenceFailed ==
    /\ last.op = "POST"
    /\ ReachesTxn(last.body)
    /\ \/ last.fail \in {1, 2, 4, 5}
       \/ /\ last.fail = 3
          /\ LastSlug \in DOMAIN prev.sensors
          /\ Changed(prev.sensors[LastSlug], PayloadName(LastP), PayloadType(LastP),
                     PayloadLocation(LastP))

\* C5: the ingest sequence is all-or-nothing: when persistence fails or the
\* process dies at any statement or at the commit, the response, if there is
\* one, is 500 and the store is the store before the request; so whenever an
\* ingest has created or changed a Sensor or SensorType row, its Reading is
\* stored too.
C5_AllOrNothing ==
    /\ PersistenceFailed =>
          /\ Store = prev
          /\ last.status = (IF last.crash THEN 0 ELSE 500)
    /\ (last.op = "POST" /\ (sensors # prev.sensors \/ sensorTypes # prev.types)) =>
          /\ last.status = 200
          /\ OneReadingAdded
          /\ NewestReading.sensor = LastSlug

\* The Reading insert fails after the transaction has saved changed metadata.
C5_Witness ==
    /\ PersistenceFailed
    /\ last.fail = 4
    /\ last.saved
    /\ last.status = 500
    /\ prev.readings # <<>>
    /\ prev.sensors[LastSlug].sensor_type # PayloadType(LastP)

\* A valid POST for a slug that was already stored.
ValidPostExisting == ValidPost /\ last.status = 200 /\ LastSlug \in DOMAIN prev.sensors

\* C6 as stated: after a successful ingest POST for an existing slug each of
\* name, type and location that differs from the incoming value (type
\* defaulting to "Generic", location to "") becomes the incoming value, and
\* one that does not differ stays.
C6_Original ==
    ValidPostExisting =>
        sensors[LastSlug] = [name |-> PayloadName(LastP),
                             sensor_type |-> PayloadType(LastP),
                             location |-> PayloadLocation(LastP)]

\* C6 amended: name (defaulting to the slug) and type (defaulting to
\* "Generic") become the incoming values; the location becomes the incoming
\* location only when that is not empty, and is kept as stored otherwise;
\* no other Sensor is touched.
C6_MetadataUpdate ==
    ValidPostExisting =>
        /\ sensors[LastSlug].name = PayloadName(LastP)
        /\ sensors[LastSlug].sensor_type = PayloadType(LastP)
        /\ sensors[LastSlug].location =
              (IF PayloadLocation(LastP) # "" THEN PayloadLocation(LastP)
               ELSE prev.sensors[LastSlug].location)
        /\ DOMAIN sensors = DOMAIN prev.sensors
        /\ \A s \in DOMAIN sensors \ {LastSlug} : sensors[s] = prev.sensors[s]

\* The type changes while the payload carries no location and the stored
\* location is kept.
C6_Witness ==
    /\ ValidPostExisting
    /\ prev.sensors[LastSlug].sensor_type # PayloadType(LastP)
    /\ sensors[LastSlug].sensor_type = PayloadType(LastP)
    /\ LastP.location = ABSENT
    /\ prev.sensors[LastSlug].location = "Lab"
    /\ sensors[LastSlug].location = "Lab"
    /\ last.saved

\* Whether the query string names a sensor at all.
QueryHasSlug == \E k \in {"slug", "sensor", "sensor_slug", "id"} : last.query[k] \notin {ABSENT, ""}
QuerySlug == GetQuerySlug(last.query)

\* C7: GET /api/ingest answers 400 without a slug, 404 for an unknown slug,
\* 404 for a Sensor without Readings and 200 otherwise, and never changes
\* the store.
C7_GetStatus ==
    last.op = "GET" =>
        /\ Store = prev
        /\ last.status =
              (IF ~QueryHasSlug THEN 400
               ELSE IF QuerySlug \notin DOMAIN sensors THEN 404
               ELSE IF ~\E i \in DOMAIN readings : readings[i].sensor = QuerySlug THEN 404
               ELSE 200)

\* A Sensor without Readings is asked for while another sensor has Readings.
C7_Witness ==
    /\ last.op = "GET"
    /\ QuerySlug \in DOMAIN sensors
    /\ ~\E i \in DOMAIN readings : readings[i].sensor = QuerySlug
    /\ readings # <<>>
    /\ last.status = 404
    /\ last.error = "no data"

\* The Reading created by the most recent successful ingest POST for a slug:
\* the one inserted last.
MostRecentOf(slug) ==
    CHOOSE i \in DOMAIN readings :
        /\ readings[i].sensor = slug
        /\ \A j \in DOMAIN readings : readings[j].sensor = slug => j <= i

\* C8: after any sequence of successful ingest POSTs, GET /api/ingest?slug=s
\* returns s with the temperature and humidity extracted from the data of
\* the Reading of the most recent successful ingest POST for s, and that
\* Reading's formatted timestamp.
C8_GetReturnsMostRecent ==
    (last.op = "GET" /\ last.status = 200) =>
        LET r == readings[MostRecentOf(QuerySlug)]
        IN  /\ last.slug = QuerySlug
            /\ last.temperature = ExtractValues(r.data).temp
            /\ last.humidity = ExtractValues(r.data).hum
            /\ last.timestamp = ToLocalIso(r.timestamp)


\* What C9 calls a value: present and not empty; the number 0 counts.
IsValue(x) ==
    /\ x.t # "none"
    /\ ~(x.t = "str" /\ x.n = 0)
    /\ ~(x.t \in {"list", "dict"} /\ x.n = 0)

\* The float of the value under the first of the keys that holds a value.
FirstValue(d, keys) ==
    LET hits == {i \in DOMAIN keys : keys[i] \in DOMAIN d.m /\ IsValue(d.m[keys[i]])}
    IN  IF hits = {} THEN None
        ELSE SafeFloat(d.m[keys[CHOOSE i \in hits : \A j \in hits : i <= j]])

\* C9: for every mapping the extracted temperature is the float of the value
\* under the first of temperature_c, temp_c, temperature, temp that is
\* present with a non-empty value (a numeric 0 counts as a value); likewise
\* humidity and water temperature over their keys.
C9_FirstPresentValueWins ==
    (last.op = "extract" /\ IsDict(last.data)) =>
        /\ last.out.temp = FirstValue(last.data, TempKeys)
        /\ last.out.hum = FirstValue(last.data, HumKeys)
        /\ last.out.wtemp = FirstValue(last.data, WTempKeys)

\* The value float() accepts.
Coercible(x) == x.t \in {"num", "bool", "numstr", "float"}
IsFloatOrNone(x) == x = None \/ (x.t = "float" /\ x.n \in Int)

NoneWhenUnusable(d, keys, result) ==
    /\ (\A i \in DOMAIN keys : keys[i] \notin DOMAIN d.m) => result = None
    /\ (\E i \in DOMAIN keys :
            /\ keys[i] \in DOMAIN d.m
            /\ Truthy(d.m[keys[i]])
            /\ ~Coercible(d.m[keys[i]])
            /\ \A j \in 1..(i - 1) : ~Truthy(Get(d, keys[j]))) => result = None

\* C10: for every input, a mapping or not, extraction returns three
\* components each a float or no-value; an absent key and a value that
\* float() rejects both give no-value; nothing is raised.
C10_ExtractionTotal ==
    last.op = "extract" =>
        /\ \A c \in {last.out.temp, last.out.hum, last.out.wtemp} :
              IsFloatOrNone(c) /\ c # Raised
        /\ ~IsDict(last.data) => last.out = NoOut
        /\ IsDict(last.data) =>
              /\ NoneWhenUnusable(last.data, TempKeys, last.out.temp)
              /\ NoneWhenUnusable(last.data, HumKeys, last.out.hum)
              /\ NoneWhenUnusable(last.data, WTempKeys, last.out.wtemp)

\* The temperature key holds a text that is no number and the humidity key a
\* list: both are picked, neither converts, and the result has no values.
C10_Witness ==
    /\ last.op = "extract"
    /\ IsDict(last.data)
    /\ DOMAIN last.data.m = {"temperature_c", "humidity"}
    /\ last.data.m["temperature_c"] = V("str", 1)
    /\ last.data.m["humidity"] = V("list", 1)
    /\ last.out = NoOut


(***************************************************************************)
(* Wire-to-storage conversion of a date-time text (_parse_iso_for_db).     *)
(* A text is [kind, iso]: "empty" is the empty string, "garbage" a string  *)
(* that is not shaped like a date-time, "impossible" a string shaped like  *)
(* one that names no date (2024-02-30T10:00), "iso" a date-time string,    *)
(* whose content is the [wall, zoned, off] of IsoFormat.                   *)
(***************************************************************************)
Text(kind, iso) == [kind |-> kind, iso |-> iso]
IsoText(iso) == Text("iso", iso)
EmptyText == Text("empty", NoIso)

NoDt == Naive(0 - 1)
Parsed(r, dt) == [r |-> r, dt |-> dt]

\* django.utils.dateparse.parse_datetime: None for a string that is not
\* well formatted, ValueError for a well formatted string that is not a
\* valid date-time, else the datetime, aware iff the string has an offset.
ParseDatetime(text) ==
    CASE text.kind = "iso" ->
            Parsed("dt", IF text.iso.zoned THEN Aware(text.iso.wall, text.iso.off)
                                           ELSE Naive(text.iso.wall))
      [] text.kind = "impossible" -> Parsed("raise", NoDt)
      [] OTHER -> Parsed("none", NoDt)

\* _parse_iso_for_db(iso_str), under either value of settings.USE_TZ
ParseIsoForDbIn(useTz, text) ==
    IF text.kind = "empty" THEN Parsed("none", NoDt)
    ELSE LET p == ParseDatetime(text)
         IN  IF p.r # "dt" THEN p
             ELSE IF useTz
                  THEN Parsed("dt", LocalTime(IF ~p.dt.aware THEN MakeAware(p.dt) ELSE p.dt))
                  ELSE IF p.dt.aware
                       THEN Parsed("dt", Naive(LocalTime(p.dt).wall))
                       ELSE p

\* _parse_iso_for_db(iso_str) as configured
ParseIsoForDb(text) == ParseIsoForDbIn(USE_TZ, text)

\* Python's == on two datetimes: the same instant if both are aware, the
\* same wall clock if both are naive, never equal otherwise.
DtEq(a, b) ==
    /\ a.aware = b.aware
    /\ IF a.aware THEN TsKey(a) = TsKey(b) ELSE a.wall = b.wall

\* The timestamps a Reading can hold: timezone.now() at an instant of the
\* window, as the database returns it (aware UTC, or naive local).
StoredTimestamps(useTz) == {TimezoneNowIn(useTz, u) : u \in 0..MaxClock}

\* The texts a client may send as a date-time.
WireTexts ==
    LET WallClocks == 0..(MaxClock + DstOffset)
    IN  {EmptyText, Text("garbage", NoIso), Text("impossible", NoIso)}
        \cup {IsoText([wall |-> w, zoned |-> FALSE, off |-> 0]) : w \in WallClocks}
        \cup {IsoText([wall |-> w, zoned |-> TRUE, off |-> o]) :
                w \in WallClocks, o \in {0, StdOffset, DstOffset}}

InitTime ==
    /\ sensorTypes = {}
    /\ sensors = NoSensors
    /\ readings = <<>>
    /\ now = 0
    /\ \/ \E m \in BOOLEAN : \E ts \in StoredTimestamps(m) :
             last = [op |-> "stored", useTz |-> m, ts |-> ts]
       \/ \E m \in BOOLEAN : \E t \in WireTexts :
             last = [op |-> "wire", useTz |-> m, text |-> t]
    /\ prev = [types |-> {}, sensors |-> NoSensors, readings |-> <<>>]
    /\ NoAccounts
    /\ inflight = <<>>

\* A stored timestamp is sent out and its text is sent back in.
RoundTrip ==
    /\ last.op = "stored"
    /\ LET iso == ToLocalIsoIn(last.useTz, last.ts)
       IN  last' = [op |-> "roundtrip", useTz |-> last.useTz, ts |-> last.ts,
                    iso |-> iso, back |-> ParseIsoForDbIn(last.useTz, IsoText(iso))]
    /\ UNCHANGED <<sensorTypes, sensors, readings, now, prev>>
    /\ UNCHANGED <<accVars, inflight>>

\* A text from a client is converted.
ParseWire ==
    /\ last.op = "wire"
    /\ last' = [op |-> "parsed", useTz |-> last.useTz, text |-> last.text,
                back |-> ParseIsoForDbIn(last.useTz, last.text)]
    /\ UNCHANGED <<sensorTypes, sensors, readings, now, prev>>
    /\ UNCHANGED <<accVars, inflight>>

NextTime == RoundTrip \/ ParseWire

SpecTime == InitTime /\ [][NextTime]_vars

\* C11: a stored timestamp, written as text by _to_local_iso and read back
\* by _parse_iso_for_db, is equal to the original, with USE_TZ on and off.
C11_RoundTrip ==
    last.op = "roundtrip" => (last.back.r = "dt" /\ DtEq(last.back.dt, last.ts))

\* An aware timestamp of the repeated hour has made the round trip.
C11_Witness ==
    /\ last.op = "roundtrip"
    /\ last.useTz
    /\ last.iso.off = StdOffset
    /\ last.iso.wall < FoldAt + DstOffset


(***************************************************************************)
(* GET /api/readings (readings_view): filters, ordering, pagination.       *)
(***************************************************************************)

\* The characters of the strings that occur as sensor slug, name, location,
\* type name or search text.  "Kueche" stands for the name written with
\* u-umlaut and "KUE" for a search text written with capital U-umlaut; the
\* two umlaut characters are the tokens "ue" (small) and "UE" (capital).
Letters(s) ==
    CASE s = "raum"    -> <<"r", "a", "u", "m">>
      [] s = " raum "  -> <<" ", "r", "a", "u", "m", " ">>
      [] s = "wasser"  -> <<"w", "a", "s", "s", "e", "r">>
      [] s = "Kueche"  -> <<"K", "ue", "c", "h", "e">>
      [] s = "DHT22"   -> <<"D", "H", "T", "2", "2">>
      [] s = "Generic" -> <<"G", "e", "n", "e", "r", "i", "c">>
      [] s = "Lab"     -> <<"L", "a", "b">>
      [] s = "LA"      -> <<"L", "A">>
      [] s = "ch"      -> <<"c", "h">>
      [] s = "KUE"     -> <<"K", "UE">>
      [] s = "zz"      -> <<"z", "z">>
      [] s = "nix"     -> <<"n", "i", "x">>
      [] OTHER         -> <<>>

\* str.strip(): the string without its leading and trailing white space.
Strip(s) == IF s = " raum " THEN "raum" ELSE s

\* Lower case of an ASCII letter; every other character is left as it is.
LowerAscii(c) ==
    CASE c = "A" -> "a" [] c = "D" -> "d" [] c = "G" -> "g" [] c = "H" -> "h"
      [] c = "K" -> "k" [] c = "L" -> "l" [] c = "T" -> "t" [] OTHER -> c

\* Lower case of any letter.
LowerAny(c) == IF c = "UE" THEN "ue" ELSE LowerAscii(c)

IsInfix(n, h) ==
    \E i \in 0..(Len(h) - Len(n)) : \A k \in 1..Len(n) : h[i + k] = n[k]

\* The text is contained in the field, ignoring the case of every letter.
ContainsAnyCase(field, text) ==
    IsInfix([i \in DOMAIN Letters(text) |-> LowerAny(Letters(text)[i])],
            [i \in DOMAIN Letters(field) |-> LowerAny(Letters(field)[i])])

\* field__icontains=text on the SQLite database of settings.DATABASES: the
\* LIKE operator, which ignores case for ASCII letters only.
IContains(field, text) ==
    IsInfix([i \in DOMAIN Letters(text) |-> LowerAscii(Letters(text)[i])],
            [i \in DOMAIN Letters(field) |-> LowerAscii(Letters(field)[i])])

\* An integer query parameter: absent, the empty string, a word, an integer
\* n, or ("bigint") an integer above the 64-bit range of the database.
IntParam(kind, n) == [kind |-> kind, n |-> n]

\* A parsed integer: n, or (big) a number above the 64-bit range.
Num(n, big) == [n |-> n, big |-> big]

DefaultPage == 1
DefaultPageSize == 100
MaxPageSize == 1000

Max(a, b) == IF a >= b THEN a ELSE b
Min(a, b) == IF a <= b THEN a ELSE b

\* try: page = max(1, int(request.GET.get("page", "1")))
\* except ValueError: page = 1
PageOf(param) ==
    CASE param.kind = "absent" -> Num(DefaultPage, FALSE)
      [] param.kind = "int"    -> Num(Max(1, param.n), FALSE)
      [] param.kind = "bigint" -> Num(0, TRUE)
      [] OTHER                 -> Num(1, FALSE)

\* try: page_size = int(request.GET.get("page_size", "100"));
\*      page_size = min(max(page_size, 1), 1000)
\* except ValueError: page_size = 100
PageSizeOf(param) ==
    CASE param.kind = "absent" -> DefaultPageSize
      [] param.kind = "int"    -> Min(Max(param.n, 1), MaxPageSize)
      [] param.kind = "bigint" -> MaxPageSize
      [] OTHER                 -> 100

\* The query string of /api/readings.
NoParams ==
    [sensor |-> ABSENT, slug |-> ABSENT, q |-> ABSENT,
     from |-> Text("absent", NoIso), to |-> Text("absent", NoIso),
     page |-> IntParam("absent", 0), page_size |-> IntParam("absent", 0)]

\* request.GET.get("from") or ""
RawText(t) == IF t.kind = "absent" THEN EmptyText ELSE t

\* (request.GET.get("sensor") or request.GET.get("slug") or "").strip()
SensorSlugOf(p) == Strip(OrStr(p.sensor, OrStr(p.slug, "")))

\* (request.GET.get("q") or "").strip()
QTextOf(p) == Strip(OrStr(p.q, ""))

\* The filtered queryset: the ids of the Readings that pass every filter
\* that is applied (the text search is the disjunction of four Q objects).
\* dt_from, dt_to are results of _parse_iso_for_db.
Filtered(st, sensor_slug, dt_from, dt_to, qtext) ==
    {i \in DOMAIN st.readings :
        LET r  == st.readings[i]
            sn == st.sensors[r.sensor]
        IN  /\ (sensor_slug # "") => r.sensor = sensor_slug
            /\ (dt_from.r = "dt") => TsKey(r.timestamp) >= TsKey(dt_from.dt)
            /\ (dt_to.r = "dt") => TsKey(r.timestamp) <= TsKey(dt_to.dt)
            /\ (qtext # "") =>
                  \/ IContains(r.sensor, qtext)
                  \/ IContains(sn.name, qtext)
                  \/ IContains(sn.location, qtext)
                  \/ IContains(sn.sensor_type, qtext)}

\* qs.order_by("-timestamp"): the orders the database may return the rows
\* in; rows with equal timestamps come in any order.
Ordered(st, S) ==
    {o \in [1..Cardinality(S) -> S] :
        /\ \A i, j \in DOMAIN o : i # j => o[i] # o[j]
        /\ \A i, j \in DOMAIN o :
              i < j => TsKey(st.readings[o[i]].timestamp) >= TsKey(st.readings[o[j]].timestamp)}

\* A mutation of the slice: one row more than the page size.
SliceOneMore(o, start, end) == SubSeq(o, start + 1, Min(end + 1, Len(o)))

\* qs[start:end]
Slice(o, start, end) == SubSeq(o, start + 1, Min(end, Len(o)))

\* _normalize_row(r)
NormalizeRow(st, r) ==
    LET e == ExtractValues(Or(r.data, EmptyMap))
    IN  [timestamp |-> ToLocalIso(r.timestamp), sensor |-> r.sensor,
         temperature |-> e.temp, humidity |-> e.hum, water_temperature |-> e.wtemp,
         location |-> st.sensors[r.sensor].location,
         type |-> st.sensors[r.sensor].sensor_type]

\* The answer of readings_view before anything is known.
ReadingsAsk(p) ==
    [op |-> "readings", params |-> p, status |-> 0, raised |-> FALSE, page |-> 0,
     page_size |-> 0, total |-> 0, ids |-> <<>>, results |-> <<>>,
     has_next |-> FALSE, has_prev |-> FALSE]

\* readings_view, request.method == "GET".  An exception that leaves the view
\* (ValueError of parse_datetime, the database's error on an OFFSET above
\* its integer range) is answered with status 500.
ReadingsView(p) ==
    LET dt_from   == ParseIsoForDb(RawText(p.from))
        dt_to     == ParseIsoForDb(RawText(p.to))
        page      == PageOf(p.page)
        page_size == PageSizeOf(p.page_size)
        S         == Filtered(Store, SensorSlugOf(p), dt_from, dt_to, QTextOf(p))
        total     == Cardinality(S)
        start     == (page.n - 1) * page_size
        end       == start + page_size
    IN  /\ \/ /\ dt_from.r = "raise" \/ dt_to.r = "raise" \/ page.big
              /\ last' = [ReadingsAsk(p) EXCEPT !.status = 500, !.raised = TRUE]
           \/ /\ dt_from.r # "raise" /\ dt_to.r # "raise" /\ ~page.big
              /\ \E o \in Ordered(Store, S) :
                    LET ids == Slice(o, start, end)
                    IN  last' = [ReadingsAsk(p) EXCEPT
                                   !.status = 200, !.page = page.n, !.page_size = page_size,
                                   !.total = total, !.ids = ids,
                                   !.results = [k \in DOMAIN ids |->
                                                  NormalizeRow(Store, readings[ids[k]])],
                                   !.has_next = end < total, !.has_prev = start > 0]
        /\ prev' = Store
        /\ UNCHANGED <<sensorTypes, sensors, readings, now>>
        /\ UNCHANGED <<accVars, inflight>>

\* The payloads that fill the store queried: "raum" with a name, a type and
\* a location, "wasser" bare.
QueryBodies ==
    {Body("json", "object",
          [NoPayload EXCEPT !.slug = "raum", !.sensor_name = "Kueche", !.sensor_type = "DHT22",
                            !.location = "Lab", !.data = DataA]),
     Body("json", "object", [NoPayload EXCEPT !.slug = "wasser", !.data = DataA])}

\* Queries that filter: by sensor and text, by sensor and time, by text and
\* lower bound; pagination at its defaults.
FilterQueries ==
    LET BoundTexts ==
            {Text("absent", NoIso), EmptyText, Text("garbage", NoIso),
             Text("impossible", NoIso)}
            \cup {IsoText([wall |-> w, zoned |-> FALSE, off |-> 0]) :
                    w \in {StdOffset + FoldAt, DstOffset + FoldAt}}
        SensorTexts == {ABSENT, "raum", " raum ", "nix"}
        QTexts == {ABSENT, "ch", "LA", "KUE", "zz"}
    IN  {[NoParams EXCEPT !.sensor = s, !.q = q] : s \in SensorTexts, q \in QTexts}
        \cup {[NoParams EXCEPT !.slug = s] : s \in {"wasser", ""}}
        \cup {[NoParams EXCEPT !.sensor = s, !.from = f, !.to = t] :
                s \in {ABSENT, "raum"}, f \in BoundTexts, t \in BoundTexts}
        \cup {[NoParams EXCEPT !.q = q, !.from = f] : q \in QTexts, f \in BoundTexts}

NextFilter ==
    \/ \E b \in QueryBodies : IngestPost(b, 0, FALSE)
    \/ Tick
    \/ \E p \in FilterQueries : ReadingsView(p)

SpecFilter == Init /\ [][NextFilter]_vars


\* A text passed as a bound that is not a parsable date-time.
Unparsable(t) == t.kind \in {"empty", "garbage", "impossible"}

\* The bound a text stands for: none if the text is not a date-time.
BoundOf(t) == IF t.kind = "iso" THEN ParseIsoForDb(t) ELSE Parsed("none", NoDt)

\* C12: when `from` or `to` is a string that is not a parsable date-time
\* (also a well-formed one naming an impossible date), the query answers
\* normally and the bound is not applied.
C12_UnparsableBoundIgnored ==
    (last.op = "readings" /\ (Unparsable(last.params.from) \/ Unparsable(last.params.to)))
    => /\ last.status = 200
       /\ ~last.raised
       /\ last.total = Cardinality(Filtered(prev, SensorSlugOf(last.params),
                                            BoundOf(last.params.from), BoundOf(last.params.to),
                                            QTextOf(last.params)))


\* The Readings of a store that satisfy all the filters a query supplies.
Satisfying(st, p) ==
    {i \in DOMAIN st.readings :
        LET r  == st.readings[i]
            sn == st.sensors[r.sensor]
            lo == BoundOf(p.from)
            hi == BoundOf(p.to)
        IN  /\ (SensorSlugOf(p) # "") => r.sensor = SensorSlugOf(p)
            /\ (lo.r = "dt") => TsKey(r.timestamp) >= TsKey(lo.dt)
            /\ (hi.r = "dt") => TsKey(r.timestamp) <= TsKey(hi.dt)
            /\ (QTextOf(p) # "") =>
                  \/ ContainsAnyCase(r.sensor, QTextOf(p))
                  \/ ContainsAnyCase(sn.name, QTextOf(p))
                  \/ ContainsAnyCase(sn.location, QTextOf(p))
                  \/ ContainsAnyCase(sn.sensor_type, QTextOf(p))}

\* C15: total is the number of Readings that satisfy all supplied filters
\* (slug equal, timestamp within the bounds, text contained ignoring case in
\* slug, name, location or type name), every returned row is one of them,
\* and the rows are in non-increasing timestamp order.
C15_FilteredTotalAndOrder ==
    (last.op = "readings" /\ last.status = 200)
    => /\ last.total = Cardinality(Satisfying(prev, last.params))
       /\ \A k \in DOMAIN last.ids : last.ids[k] \in Satisfying(prev, last.params)
       /\ \A j, k \in DOMAIN last.ids :
             j < k => TsKey(prev.readings[last.ids[j]].timestamp)
                        >= TsKey(prev.readings[last.ids[k]].timestamp)


\* Queries that paginate: every pair of values of page and page_size, over
\* all Readings; some over the Readings of one sensor.
PageQueries ==
    LET IntParams ==
            {IntParam(k, 0) : k \in {"absent", "empty", "word", "bigint"}}
            \cup {IntParam("int", n) : n \in {0 - 1, 0, 1, 2, 3, MaxPageSize + 1}}
    IN  {[NoParams EXCEPT !.page = a, !.page_size = b] : a \in IntParams, b \in IntParams}
        \cup {[NoParams EXCEPT !.sensor = "raum", !.page = IntParam("int", n),
                               !.page_size = IntParam("int", 1)] : n \in {1, 2}}

NextPage ==
    \/ \E b \in QueryBodies : IngestPost(b, 0, FALSE)
    \/ Tick
    \/ \E p \in PageQueries : ReadingsView(p)

SpecPage == Init /\ [][NextPage]_vars

\* C13: in every /api/readings response there are at most page_size rows,
\* has_next is (page * page_size < total) and has_prev is (page > 1).
C13_PageMetadata ==
    (last.op = "readings" /\ last.status = 200)
    => /\ Len(last.results) <= last.page_size
       /\ last.has_next = (last.page * last.page_size < last.total)
       /\ last.has_prev = (last.page > 1)

\* A first page of one row with another page behind it, and a last page.
C13_Witness ==
    /\ last.op = "readings"
    /\ last.status = 200
    /\ last.page_size = 1
    /\ Len(last.results) = 1
    /\ \/ last.page = 1 /\ last.has_next
       \/ last.page = 2 /\ last.has_prev /\ ~last.has_next

\* C14: whatever page and page_size are given as, the request does not
\* fail, page is at least 1 and page_size within 1..1000; a value that is
\* not an integer gives the default (page 1, page_size 100).
C14_PageParamsTotal ==
    (last.op = "readings")
    => /\ last.status = 200
       /\ last.page >= 1
       /\ last.page_size >= 1 /\ last.page_size <= MaxPageSize
       /\ (last.params.page.kind \in {"absent", "empty", "word"}) => last.page = DefaultPage
       /\ (last.params.page_size.kind \in {"absent", "empty", "word"})
             => last.page_size = DefaultPageSize


(***************************************************************************)
(* Accounts: registration, login, logout and the protected start page.     *)
(* A User row is [email, password, is_active, by]; `by` records whether    *)
(* the row was made by the registration form or in the admin site.         *)
(***************************************************************************)
MaxPending == 2

\* str.lower() of the identifiers and e-mail addresses that occur.
LowerText(e) == IF e = "A@x" THEN "a@x" ELSE e

\* "@" in username
HasAt(i) == i \in {"a@x", "A@x", "b@x"}

\* set_password / check_password: the stored value is a hash of the raw
\* password, and a raw password is checked by hashing it again.
MakePassword(raw) == <<"pbkdf2_sha256", raw>>
CheckPassword(raw, stored) == MakePassword(raw) = stored

\* UserModel.objects.filter(email__iexact=e): the usernames of the rows found
EmailIExact(us, e) == {u \in DOMAIN us : LowerText(us[u].email) = LowerText(e)}

\* RegisterForm.clean_email: the cleaned address, and whether it is accepted
CleanEmail(us, raw) ==
    LET email == LowerText(Strip(raw))
    IN  [email |-> email, ok |-> ~(email # "" /\ EmailIExact(us, email) # {})]

\* RegisterForm.clean: the two passwords, when both given, must be equal
CleanPasswords(f) == ~(f.password1 # "" /\ f.password2 # "" /\ f.password1 # f.password2)

\* form.is_valid() of RegisterForm: required fields, a username that no
\* row has (the model's unique check), clean_email, clean
IsValid(us, f) ==
    /\ f.username # "" /\ f.password1 # "" /\ f.password2 # ""
    /\ f.username \notin DOMAIN us
    /\ CleanEmail(us, f.email).ok
    /\ CleanPasswords(f)

\* RegisterForm.save: the new row
SaveUser(us, f) ==
    (f.username :> [email |-> CleanEmail(us, f.email).email,
                    password |-> MakePassword(f.password1),
                    is_active |-> TRUE, by |-> "register"]) @@ us

\* A mutation of login(): the session is left as it was.
LoginNoop(sess, user) == sess.user

\* django.contrib.auth.login(request, user): the session's user afterwards
LoginUser(sess, user) == user

\* request.user.is_authenticated: the session names a row that is active
IsAuthenticated(us, sess) ==
    /\ sess.user \in DOMAIN us
    /\ us[sess.user].is_active

\* The answer of a backend, or of authenticate().
AuthResult(r, user) == [r |-> r, user |-> user]

\* The last lines of both backends' authenticate: check_password and
\* user_can_authenticate (is_active).
Accept(us, u, password) ==
    IF CheckPassword(password, us[u].password) /\ us[u].is_active
    THEN AuthResult("user", u) ELSE AuthResult("none", "")

\* EmailOrUsernameBackend.authenticate.  objects.get raises
\* MultipleObjectsReturned, which is not caught, when several rows match.
EmailOrUsernameBackend(us, username, password) ==
    IF username # "" /\ HasAt(username)
    THEN LET found == EmailIExact(us, username)
         IN  IF found = {} THEN AuthResult("none", "")
             ELSE IF Cardinality(found) > 1 THEN AuthResult("raise", "")
             ELSE Accept(us, CHOOSE u \in found : TRUE, password)
    ELSE IF username \notin DOMAIN us THEN AuthResult("none", "")
         ELSE Accept(us, username, password)

\* django.contrib.auth.backends.ModelBackend.authenticate: by username
ModelBackend(us, username, password) ==
    IF username \notin DOMAIN us THEN AuthResult("none", "")
    ELSE Accept(us, username, password)

\* django.contrib.auth.authenticate over AUTHENTICATION_BACKENDS: the first
\* backend that returns a user; an exception of a backend leaves the call.
Authenticate(us, username, password) ==
    LET first == EmailOrUsernameBackend(us, username, password)
    IN  IF first.r # "none" THEN first ELSE ModelBackend(us, username, password)

\* A registration form as posted; `mine` tells whether the request comes
\* from the browser session followed.
Form(username, email, p1, p2) ==
    [username |-> username, email |-> email, password1 |-> p1, password2 |-> p2]

\* The record of an accounts request and its outcome.
AuthAsk(op) ==
    [op |-> op, form |-> Form("", "", "", ""), mine |-> FALSE, username |-> "", password |-> "",
     before |-> users, attempted |-> FALSE, ok |-> FALSE, raised |-> FALSE,
     rendered |-> FALSE, redirect |-> ""]

\* register, up to and including form.is_valid().  A signed-in browser is
\* redirected; an invalid form is shown again; a valid form goes on to save.
RegisterCheck(f, mine) ==
    LET ask == [AuthAsk("register") EXCEPT !.form = f, !.mine = mine]
    IN  /\ \/ /\ mine /\ IsAuthenticated(users, session)
              /\ last' = [ask EXCEPT !.redirect = "frontend"]
              /\ pending' = pending
           \/ /\ ~(mine /\ IsAuthenticated(users, session))
              /\ ~IsValid(users, f)
              /\ last' = [ask EXCEPT !.attempted = TRUE]
              /\ pending' = pending
           \/ /\ ~(mine /\ IsAuthenticated(users, session))
              /\ IsValid(users, f)
              /\ Cardinality(pending) < MaxPending
              /\ last' = [ask EXCEPT !.op = "register_valid", !.attempted = TRUE]
              /\ pending' = pending \cup {[form |-> f, mine |-> mine]}
        /\ UNCHANGED <<inflight, sensorTypes, sensors, readings, now, prev, users, session>>

\* register, from form.save() on: the row is inserted (the database refuses
\* a username that exists by now) and the new user is signed in.
RegisterSave(r) ==
    LET ask == [AuthAsk("register") EXCEPT !.form = r.form, !.mine = r.mine, !.attempted = TRUE]
    IN  /\ r \in pending
        /\ pending' = pending \ {r}
        /\ \/ /\ r.form.username \in DOMAIN users
              /\ last' = [ask EXCEPT !.raised = TRUE]
              /\ UNCHANGED <<users, session>>
           \/ /\ r.form.username \notin DOMAIN users
              /\ users' = SaveUser(users, r.form)
              /\ session' = IF r.mine
                            THEN [user |-> LoginUser(session, r.form.username),
                                  event |-> "register"]
                            ELSE session
              /\ last' = [ask EXCEPT !.ok = TRUE, !.redirect = "frontend"]
        /\ UNCHANGED <<inflight, sensorTypes, sensors, readings, now, prev>>

\* StyledLoginView, POST from the browser followed: a signed-in browser is
\* redirected (redirect_authenticated_user); else LoginForm authenticates,
\* and form_valid signs the user in.
Login(username, password) ==
    LET ask == [AuthAsk("login") EXCEPT !.mine = TRUE, !.username = username,
                                        !.password = password]
        a   == Authenticate(users, username, password)
    IN  /\ \/ /\ IsAuthenticated(users, session)
              /\ last' = [ask EXCEPT !.redirect = "frontend"]
              /\ session' = session
           \/ /\ ~IsAuthenticated(users, session)
              /\ a.r = "raise"
              /\ last' = [ask EXCEPT !.attempted = TRUE, !.raised = TRUE]
              /\ session' = session
           \/ /\ ~IsAuthenticated(users, session)
              /\ a.r = "none"
              /\ last' = [ask EXCEPT !.attempted = TRUE]
              /\ session' = session
           \/ /\ ~IsAuthenticated(users, session)
              /\ a.r = "user"
              /\ last' = [ask EXCEPT !.attempted = TRUE, !.ok = TRUE, !.redirect = "frontend"]
              /\ session' = [user |-> LoginUser(session, a.user), event |-> "login"]
        /\ UNCHANGED <<inflight, sensorTypes, sensors, readings, now, prev, users, pending>>

\* logout_view and custom_logout_view: logout(request), then to the login page
Logout ==
    /\ session' = [user |-> "", event |-> "logout"]
    /\ last' = [AuthAsk("logout") EXCEPT !.mine = TRUE, !.redirect = "login"]
    /\ UNCHANGED <<inflight, sensorTypes, sensors, readings, now, prev, users, pending>>

\* GET / : login_required(frontend)
Frontend ==
    /\ last' = [AuthAsk("frontend") EXCEPT
                   !.mine = TRUE,
                   !.rendered = IsAuthenticated(users, session),
                   !.redirect = IF IsAuthenticated(users, session) THEN "" ELSE "login"]
    /\ UNCHANGED <<inflight, sensorTypes, sensors, readings, now, prev, users, session, pending>>

\* The admin site: a User row added by hand, or a row's is_active cleared.
AdminAddUser(username, email, raw) ==
    /\ username \notin DOMAIN users
    /\ users' = (username :> [email |-> email, password |-> MakePassword(raw),
                              is_active |-> TRUE, by |-> "admin"]) @@ users
    /\ last' = AuthAsk("admin")
    /\ UNCHANGED <<inflight, sensorTypes, sensors, readings, now, prev, session, pending>>

AdminDeactivate(username) ==
    /\ username \in DOMAIN users
    /\ users[username].is_active
    /\ users' = [users EXCEPT ![username].is_active = FALSE]
    /\ last' = AuthAsk("admin")
    /\ UNCHANGED <<inflight, sensorTypes, sensors, readings, now, prev, session, pending>>


\* Accounts are made by registration and in the admin site; one browser
\* logs in and out.
LoginForms == {Form(u, e, "pw1", "pw1") : u \in {"anna", "b@x"}, e \in {"a@x", "A@x"}}
Passwords == {"pw1", "pw2"}

NextLogin ==
    \/ \E f \in LoginForms : RegisterCheck(f, FALSE)
    \/ \E r \in pending : RegisterSave(r)
    \/ \E f \in LoginForms : AdminAddUser(f.username, f.email, f.password1)
    \/ \E u \in DOMAIN users : AdminDeactivate(u)
    \/ \E i \in {"anna", "b@x", "a@x", "A@x", "zoe"}, pw \in Passwords : Login(i, pw)
    \/ Logout

SpecLogin == Init /\ [][NextLogin]_vars

\* The accounts an identifier stands for: by e-mail address ignoring case
\* if it contains "@", else by exact username.
MatchedBy(us, i) ==
    IF HasAt(i) THEN {u \in DOMAIN us : LowerText(us[u].email) = LowerText(i)}
    ELSE {u \in DOMAIN us : u = i}

\* C16: a login attempt with identifier i and password p succeeds iff an
\* active account with password p matches i (by e-mail ignoring case when i
\* contains "@", else by exact username); every other attempt fails in the
\* same way and no error is raised.
C16_LoginIffMatch ==
    (last.op = "login" /\ last.attempted)
    => /\ ~last.raised
       /\ last.ok <=> \E u \in MatchedBy(last.before, last.username) :
                         /\ last.before[u].is_active
                         /\ CheckPassword(last.password, last.before[u].password)
       /\ ~last.ok => last.redirect = ""

\* Registration requests from several browsers, handled concurrently.
RegisterForms ==
    {Form(u, e, "pw1", p2) : u \in {"anna", "bert"}, e \in {"a@x", "A@x", ""},
                             p2 \in {"pw1", "pw2"}}

NextRegister ==
    \/ \E f \in RegisterForms : RegisterCheck(f, FALSE)
    \/ \E r \in pending : RegisterSave(r)

SpecRegister == Init /\ [][NextRegister]_vars

\* C17: a registration whose e-mail address equals, ignoring case, that of
\* an existing account is rejected and creates no account; and no two
\* accounts made by registration have the same non-empty address ignoring
\* case, whatever the order and interleaving of the requests.
C17_EmailUnique ==
    /\ (/\ last.op \in {"register", "register_valid"}
        /\ last.attempted
        /\ last.form.email # ""
        /\ \E u \in DOMAIN last.before :
              LowerText(last.before[u].email) = LowerText(last.form.email))
       => (~last.ok /\ users = last.before)
    /\ \A u, v \in DOMAIN users :
          (/\ u # v
           /\ users[u].by = "register" /\ users[v].by = "register"
           /\ users[u].email # "")
          => LowerText(users[u].email) # LowerText(users[v].email)


\* One browser registers, logs in, logs out and opens the start page.
SessionForms ==
    {Form(u, e, "pw1", p2) : u \in {"anna", "bert"}, e \in {"a@x", "A@x"},
                             p2 \in {"pw1", "pw2"}}

NextSession ==
    \/ \E f \in SessionForms : RegisterCheck(f, TRUE)
    \/ \E r \in pending : RegisterSave(r)
    \/ \E i \in {"anna", "a@x", "zoe"}, pw \in Passwords : Login(i, pw)
    \/ Logout
    \/ Frontend

SpecSession == Init /\ [][NextSession]_vars

Methods == {"GET", "POST", "PUT", "DELETE", "HEAD", "OPTIONS"}

\* CsrfViewMiddleware.process_view: a request with an unsafe method (not
\* GET, HEAD, OPTIONS or TRACE) to a view that is not csrf_exempt is refused
\* unless it carries a valid token.
CsrfRefuses(endpoint, method, token) ==
    /\ endpoint # "ingest"
    /\ method \notin {"GET", "HEAD", "OPTIONS", "TRACE"}
    /\ ~token

\* The slugs in the order of their spelling.
SlugOrder == <<"alpha", "raum", "wasser">>

\* A mutation: only the sensors that have a Reading are listed.
ListedSlugsWithReadings(st) ==
    SelectSeq(SlugOrder, LAMBDA x : x \in DOMAIN st.sensors /\ ReadingsOf(st, x) # {})

\* Sensor.objects.order_by("slug"): the slugs of all rows, ascending.
ListedSlugs(st) == SelectSeq(SlugOrder, LAMBDA x : x \in DOMAIN st.sensors)

\* One item of the list that sensors_list returns.
SensorItem(st, slug) ==
    [name |-> st.sensors[slug].name, slug |-> slug,
     type |-> st.sensors[slug].sensor_type,
     location |-> OrStr(st.sensors[slug].location, ""),
     is_active |-> TRUE]

\* The record of a request to a JSON endpoint and its answer.  `read` tells
\* whether the view has queried the database.
ApiAsk(endpoint, method, token) ==
    [op |-> "api", endpoint |-> endpoint, method |-> method, token |-> token,
     query |-> NoQuery, status |-> 0, error |-> "", read |-> FALSE, items |-> <<>>,
     slug |-> "", temperature |-> None, timestamp |-> NoIso]

\* sensors_list
SensorsList(method, token) ==
    LET ask   == ApiAsk("sensors", method, token)
        slugs == ListedSlugs(Store)
    IN  /\ \/ /\ CsrfRefuses("sensors", method, token)
              /\ last' = [ask EXCEPT !.status = 403]
           \/ /\ ~CsrfRefuses("sensors", method, token)
              /\ method # "GET"
              /\ last' = [ask EXCEPT !.status = 405, !.error = "method not allowed"]
           \/ /\ ~CsrfRefuses("sensors", method, token)
              /\ method = "GET"
              /\ last' = [ask EXCEPT !.status = 200, !.read = TRUE,
                                     !.items = [k \in DOMAIN slugs |->
                                                  SensorItem(Store, slugs[k])]]
        /\ prev' = Store
        /\ UNCHANGED <<sensorTypes, sensors, readings, now>>
        /\ UNCHANGED <<accVars, inflight>>

\* water_latest: the view does not look at request.method.
WaterLatest(method, token, q) ==
    LET ask  == [ApiAsk("water", method, token) EXCEPT !.query = q]
        slug == OrStr(GetQuerySlug(q), "wasser")
    IN  /\ \/ /\ CsrfRefuses("water", method, token)
              /\ last' = [ask EXCEPT !.status = 403]
           \/ /\ ~CsrfRefuses("water", method, token)
              /\ slug \notin DOMAIN sensors
              /\ last' = [ask EXCEPT !.status = 404, !.read = TRUE,
                                     !.error = "sensor not found"]
           \/ /\ ~CsrfRefuses("water", method, token)
              /\ slug \in DOMAIN sensors
              /\ Latest(Store, slug) = {}
              /\ last' = [ask EXCEPT !.status = 404, !.read = TRUE, !.error = "no data"]
           \/ /\ ~CsrfRefuses("water", method, token)
              /\ slug \in DOMAIN sensors
              /\ \E i \in Latest(Store, slug) :
                    LET n == NormalizeReading(readings[i])
                    IN  last' = [ask EXCEPT !.status = 200, !.read = TRUE, !.slug = n.slug,
                                            !.temperature = n.temperature,
                                            !.timestamp = n.timestamp]
        /\ prev' = Store
        /\ UNCHANGED <<sensorTypes, sensors, readings, now>>
        /\ UNCHANGED <<accVars, inflight>>

\* ingest_view and readings_view on a method they do not handle: ingest_view
\* falls through both branches, readings_view returns at its first lines.
OtherMethod(endpoint, method, token) ==
    LET ask == ApiAsk(endpoint, method, token)
    IN  /\ endpoint = "ingest" => method \notin {"GET", "POST"}
        /\ endpoint = "readings" => method # "GET"
        /\ \/ /\ CsrfRefuses(endpoint, method, token)
              /\ last' = [ask EXCEPT !.status = 403]
           \/ /\ ~CsrfRefuses(endpoint, method, token)
              /\ last' = [ask EXCEPT !.status = 405, !.error = "method not allowed"]
        /\ prev' = Store
        /\ UNCHANGED <<sensorTypes, sensors, readings, now>>
        /\ UNCHANGED <<accVars, inflight>>

NextApi ==
    \/ \E b \in QueryBodies : IngestPost(b, 0, FALSE)
    \/ \E s \in Range(SlugOrder), t \in sensorTypes, l \in {"", "Keller"} :
          AdminAddSensor(s, "Neu", t, l)
    \/ Tick
    \/ \E m \in Methods, t \in BOOLEAN : SensorsList(m, t)
    \/ \E m \in Methods, t \in BOOLEAN, q \in {NoQuery, [NoQuery EXCEPT !.slug = "raum"]} :
          WaterLatest(m, t, q)
    \/ \E e \in {"ingest", "readings"}, m \in Methods, t \in BOOLEAN : OtherMethod(e, m, t)

SpecApi == Init /\ [][NextApi]_vars

\* C19: GET /api/sensors returns one entry for every stored Sensor and no
\* others, in ascending slug order, each with is_active true, the name of
\* the sensor's type, and the stored location ("" if unset).
C19_SensorsListed ==
    (last.op = "api" /\ last.endpoint = "sensors" /\ last.method = "GET")
    => /\ last.status = 200
       /\ {last.items[k].slug : k \in DOMAIN last.items} = DOMAIN prev.sensors
       /\ Len(last.items) = Cardinality(DOMAIN prev.sensors)
       /\ \A j, k \in DOMAIN last.items :
             j < k => \E a, b \in DOMAIN SlugOrder :
                         /\ a < b
                         /\ SlugOrder[a] = last.items[j].slug
                         /\ SlugOrder[b] = last.items[k].slug
       /\ \A k \in DOMAIN last.items :
             LET it == last.items[k]
             IN  /\ it.is_active
                 /\ it.type = prev.sensors[it.slug].sensor_type
                 /\ it.type \in prev.types
                 /\ it.location = prev.sensors[it.slug].location

\* Three sensors, one of them without a Reading and one with a location,
\* have been listed.
C19_Witness ==
    /\ last.op = "api" /\ last.endpoint = "sensors" /\ last.method = "GET"
    /\ Len(last.items) = 3
    /\ \E k \in DOMAIN last.items : ReadingsOf(prev, last.items[k].slug) = {}
    /\ \E k \in DOMAIN last.items : last.items[k].location # ""

\* The methods an endpoint supports.
Supported(endpoint) == IF endpoint = "ingest" THEN {"GET", "POST"} ELSE {"GET"}

\* C20: every JSON endpoint answers a method it does not support with 405,
\* without reading or writing anything.
C20_MethodNotAllowed ==
    (last.op = "api" /\ last.method \notin Supported(last.endpoint))
    => /\ last.status = 405
       /\ ~last.read
       /\ Store = prev


\* C21: an ingest POST for an existing slug that carries no sensor_name, no
\* sensor_type and no location leaves the stored Sensor's name, type and
\* location as they were; only a Reading is added.
C21_BareIngestKeepsMetadata ==
    (/\ ValidPostExisting
     /\ LastP.sensor_name = ABSENT
     /\ LastP.sensor_type = ABSENT
     /\ LastP.location = ABSENT)
    => /\ sensors[LastSlug] = prev.sensors[LastSlug]
       /\ Len(readings) = Len(prev.readings) + 1

(***************************************************************************)
(* Concurrent ingest.  Each request runs views.py 219-248 in a transaction *)
(* of its own connection to the SQLite file (settings.py 85-90), statement  *)
(* by statement.  SQLite's file locks order the transactions: the first     *)
(* SELECT of a transaction takes the SHARED lock, its first write the       *)
(* RESERVED lock, which one connection holds at a time, and COMMIT needs    *)
(* the EXCLUSIVE lock, which is granted when no other connection holds      *)
(* SHARED.  A connection that is refused a lock gets "database is locked",  *)
(* an OperationalError that `except Exception` turns into a 500.            *)
(***************************************************************************)
MaxInflight == 2

NoStore == [types |-> {}, sensors |-> NoSensors, readings |-> <<>>]

\* with transaction.atomic(): entered, no statement executed, no lock held.
\* work is the database as the transaction sees it once it holds SHARED.
Begun(body) ==
    [kind |-> "ingest", body |-> body, pc |-> "type", shared |-> FALSE,
     wrote |-> FALSE, work |-> NoStore, inserted |-> {}]

\* The next statement of transaction t, executed on the database st it sees:
\* the store it leaves, whether it writes, the rows it has INSERTed so far
\* and the statement that follows.
Statement(t, st, clock) ==
    LET p        == JsonLoads(t.body).p
        slug     == PayloadSlug(p)
        name     == PayloadName(p)
        stName   == PayloadType(p)
        location == PayloadLocation(p)
    IN  CASE t.pc = "type" ->
               [work |-> GetOrCreateType(st, stName), writes |-> stName \notin st.types,
                inserted |-> IF stName \in st.types THEN t.inserted
                             ELSE t.inserted \cup {"type"},
                pc |-> "sensor"]
          [] t.pc = "sensor" ->
               LET existed == slug \in DOMAIN st.sensors
                   s2      == GetOrCreateSensor(st, slug, name, stName, location)
                   chg     == existed /\ Changed(s2.sensors[slug], name, stName, location)
               IN  [work |-> s2, writes |-> ~existed,
                    inserted |-> IF existed THEN t.inserted ELSE t.inserted \cup {"sensor"},
                    pc |-> IF chg THEN "save" ELSE "reading"]
          [] t.pc = "save" ->
               [work |-> SaveSensor(st, slug,
                                    MergeSensor(st.sensors[slug], name, stName, location)),
                writes |-> TRUE, inserted |-> t.inserted, pc |-> "reading"]
          [] OTHER ->
               [work |-> CreateReading(st, slug, PayloadData(p), TimezoneNow(clock)),
                writes |-> TRUE, inserted |-> t.inserted, pc |-> "commit"]

\* The database transaction t reads: the file until it holds SHARED, and from
\* then on the file as it was then, with its own writes.
Seen(t) == IF t.shared THEN t.work ELSE Store

\* RESERVED is granted when no other connection has written.
CanWrite(fl, id) == \A o \in DOMAIN fl \ {id} : ~fl[o].wrote

\* A mutation: COMMIT does not wait for the readers.
CanCommitOverReaders(fl, id) == TRUE

\* EXCLUSIVE is granted when no other connection holds SHARED.
CanCommit(fl, id) == \A o \in DOMAIN fl \ {id} : ~fl[o].shared

\* The request is refused the lock its next step needs.
Blocked(fl, id) ==
    IF fl[id].pc = "commit" THEN ~CanCommit(fl, id)
    ELSE Statement(fl[id], Seen(fl[id]), now).writes /\ ~CanWrite(fl, id)

Without(fl, id) == [o \in DOMAIN fl \ {id} |-> fl[o]]

\* What is kept of a finished concurrent ingest.
Finished(t, status) ==
    [op |-> "ingest", body |-> t.body, status |-> status,
     inserted |-> IF status = 200 THEN t.inserted ELSE {},
     id |-> IF status = 200 THEN Len(t.work.readings) ELSE 0]

\* ingest_view, POST, up to `with transaction.atomic():` (views.py 196-219)
IngestBegin(id, body) ==
    /\ id \notin DOMAIN inflight
    /\ ReachesTxn(body)
    /\ Len(readings) + Cardinality(DOMAIN inflight) < MaxReadings
    /\ inflight' = (id :> Begun(body)) @@ inflight
    /\ UNCHANGED <<sensorTypes, sensors, readings, now, last, prev, accVars>>

\* One statement of the block (views.py 221-248).  A statement that is
\* refused RESERVED has still read, and holds SHARED.
IngestStep(id) ==
    /\ id \in DOMAIN inflight
    /\ inflight[id].kind = "ingest"
    /\ inflight[id].pc # "commit"
    /\ LET t == inflight[id]
           r == Statement(t, Seen(t), now)
       IN  IF Blocked(inflight, id)
           THEN /\ ~t.shared
                /\ inflight' = [inflight EXCEPT ![id].shared = TRUE, ![id].work = Store]
           ELSE inflight' = [inflight EXCEPT
                                ![id].shared = TRUE, ![id].work = r.work,
                                ![id].wrote = t.wrote \/ r.writes,
                                ![id].inserted = r.inserted, ![id].pc = r.pc]
    /\ UNCHANGED <<sensorTypes, sensors, readings, now, last, prev, accVars>>

\* The block is left: COMMIT, then the 200 response (views.py 248, 255-274)
IngestCommit(id) ==
    /\ id \in DOMAIN inflight
    /\ inflight[id].kind = "ingest"
    /\ inflight[id].pc = "commit"
    /\ CanCommit(inflight, id)
    /\ sensorTypes' = inflight[id].work.types
    /\ sensors' = inflight[id].work.sensors
    /\ readings' = inflight[id].work.readings
    /\ inflight' = Without(inflight, id)
    /\ last' = Finished(inflight[id], 200)
    /\ prev' = Store
    /\ UNCHANGED <<now, accVars>>

\* "database is locked": the block is rolled back (views.py 250-252)
IngestBusy(id) ==
    /\ id \in DOMAIN inflight
    /\ inflight[id].kind = "ingest"
    /\ Blocked(inflight, id)
    /\ inflight' = Without(inflight, id)
    /\ last' = Finished(inflight[id], 500)
    /\ prev' = Store
    /\ UNCHANGED <<sensorTypes, sensors, readings, now, accVars>>

NextConc ==
    LET ConcBodies ==
            {Body("json", "object",
                  [NoPayload EXCEPT !.slug = "raum", !.sensor_name = "Kueche",
                                    !.sensor_type = "DHT22", !.data = DataA]),
             Body("json", "object", [NoPayload EXCEPT !.slug = "raum", !.data = DataB]),
             Body("json", "object", [NoPayload EXCEPT !.slug = "wasser", !.data = DataA])}
    IN  \/ \E id \in 1..MaxInflight, b \in ConcBodies : IngestBegin(id, b)
        \/ \E id \in 1..MaxInflight : IngestStep(id)
        \/ \E id \in 1..MaxInflight : IngestCommit(id)
        \/ \E id \in 1..MaxInflight : IngestBusy(id)
        \/ Tick

SpecConc == Init /\ [][NextConc]_vars

\* C22: in every interleaving of concurrent ingest POSTs, for the same slug or
\* for distinct slugs, a request that ends either succeeded, and then the
\* stored Readings are the ones before it plus exactly one that references
\* the Sensor with the request's slug, or it failed with 500 and the store
\* is as before; no Sensor row is inserted for a slug that has one and no
\* SensorType row for a name that has one.
C22_ConcurrentIngest ==
    last.op = "ingest" =>
        LET p    == last.body.p
            slug == PayloadSlug(p)
        IN  \/ /\ last.status = 200
               /\ Len(readings) = Len(prev.readings) + 1
               /\ SubSeq(readings, 1, Len(prev.readings)) = prev.readings
               /\ readings[Len(readings)].sensor = slug
               /\ last.id = Len(readings)
               /\ DOMAIN sensors = DOMAIN prev.sensors \cup {slug}
               /\ \A s \in DOMAIN prev.sensors \ {slug} : sensors[s] = prev.sensors[s]
               /\ sensorTypes = prev.types \cup {PayloadType(p)}
               /\ "sensor" \in last.inserted <=> slug \notin DOMAIN prev.sensors
               /\ "type" \in last.inserted <=> PayloadType(p) \notin prev.types
            \/ /\ last.status = 500
               /\ Store = prev

\* Two requests for the same slug were under way; one has written, and the
\* other was refused the lock and failed.
C22_Witness ==
    /\ last.op = "ingest"
    /\ last.status = 500
    /\ \E o \in DOMAIN inflight :
          /\ inflight[o].wrote
          /\ PayloadSlug(inflight[o].body.p) = PayloadSlug(last.body.p)

(***************************************************************************)
(* Deletions (the admin site, admin.py 4-13, or Model.delete()).  Django    *)
(* collects the rows that reference the deleted one and applies each        *)
(* foreign key's on_delete.                                                 *)
(***************************************************************************)
\* A mutation: Reading.sensor with on_delete=DO_NOTHING and no constraint.
CascadeKeepsReadings(st, slug) == st.readings

\* models.py 21, on_delete=CASCADE: the Readings that remain when the Sensor
\* with this slug is deleted.
Cascade(st, slug) == SelectSeq(st.readings, LAMBDA r : r.sensor # slug)

\* models.py 14, on_delete=PROTECT: some Sensor references the SensorType.
Protected(st, name) == \E s \in DOMAIN st.sensors : st.sensors[s].sensor_type = name

\* Sensor.delete()
DeleteSensor(slug) ==
    /\ slug \in DOMAIN sensors
    /\ sensors' = [s \in DOMAIN sensors \ {slug} |-> sensors[s]]
    /\ readings' = Cascade(Store, slug)
    /\ last' = [Idle("delete_sensor") EXCEPT !.slug = slug, !.status = 200]
    /\ prev' = Store
    /\ UNCHANGED <<sensorTypes, now, accVars, inflight>>

\* SensorType.delete(): ProtectedError when a Sensor references the type.
DeleteSensorType(name) ==
    /\ name \in sensorTypes
    /\ sensorTypes' = IF Protected(Store, name) THEN sensorTypes ELSE sensorTypes \ {name}
    /\ last' = [Idle("delete_type") EXCEPT
                   !.slug = name,
                   !.status = IF Protected(Store, name) THEN 403 ELSE 200,
                   !.error = IF Protected(Store, name) THEN "ProtectedError" ELSE ""]
    /\ prev' = Store
    /\ UNCHANGED <<sensors, readings, now, accVars, inflight>>

NextDelete ==
    LET DeleteBodies ==
            {Body("json", "object",
                  [NoPayload EXCEPT !.slug = "raum", !.sensor_type = t, !.data = DataA]) :
                t \in {ABSENT, "DHT22"}}
            \cup {Body("json", "object", [NoPayload EXCEPT !.slug = "wasser", !.data = DataA])}
    IN  \/ \E b \in DeleteBodies : IngestPost(b, 0, FALSE)
        \/ \E s \in Slugs : DeleteSensor(s)
        \/ \E t \in {"Generic", "DHT22"} : DeleteSensorType(t)

SpecDelete == Init /\ [][NextDelete]_vars

\* C23: in every state reached by ingests, sensor deletions and sensor-type
\* deletions, every Reading references an existing Sensor and every Sensor an
\* existing SensorType; an ingest inserts a Sensor only for a slug that has
\* none; deleting a Sensor removes exactly that Sensor and its Readings;
\* deleting a SensorType that a Sensor references is refused and changes
\* nothing, and deleting an unreferenced one removes only it.
C23_ReferentialIntegrity ==
    /\ \A i \in 1..Len(readings) : readings[i].sensor \in DOMAIN sensors
    /\ \A s \in DOMAIN sensors : sensors[s].sensor_type \in sensorTypes
    /\ (last.op = "POST" /\ last.created) => LastSlug \notin DOMAIN prev.sensors
    /\ last.op = "delete_sensor" =>
          /\ DOMAIN sensors = DOMAIN prev.sensors \ {last.slug}
          /\ \A s \in DOMAIN sensors : sensors[s] = prev.sensors[s]
          /\ readings = SelectSeq(prev.readings, LAMBDA r : r.sensor # last.slug)
          /\ sensorTypes = prev.types
    /\ last.op = "delete_type" =>
          IF \E s \in DOMAIN prev.sensors : prev.sensors[s].sensor_type = last.slug
          THEN last.status = 403 /\ Store = prev
          ELSE /\ last.status = 200
               /\ sensorTypes = prev.types \ {last.slug}
               /\ sensors = prev.sensors
               /\ readings = prev.readings

\* A Sensor with Readings was deleted while another Sensor's Readings stay.
C23_Witness ==
    /\ last.op = "delete_sensor"
    /\ Len(readings) > 0
    /\ Len(prev.readings) > Len(readings)

(***************************************************************************)
(* /api/readings in its two database steps.  The view runs in autocommit    *)
(* mode (settings.py sets no ATOMIC_REQUESTS and the view opens no          *)
(* transaction), so qs.count() and list(qs[start:end]) are two statements   *)
(* that each see the database as it is when they run; other requests may    *)
(* commit between them.                                                     *)
(***************************************************************************)
\* A mutation of the slice's end: one row too far.
EndInclusive(start, page_size) == start + page_size + 1

\* end = start + page_size
End(start, page_size) == start + page_size

\* The request after qs.count(): its query string and total.  counted keeps
\* the rows that total counted; the view itself keeps only their number.
Counted(p, S) ==
    [kind |-> "readings", params |-> p, total |-> Cardinality(S), counted |-> S,
     shared |-> FALSE, wrote |-> FALSE]

\* readings_view up to `total = qs.count()` (views.py 346-396)
ReadingsCount(id, p) ==
    LET dt_from == ParseIsoForDb(RawText(p.from))
        dt_to   == ParseIsoForDb(RawText(p.to))
        S       == Filtered(Store, SensorSlugOf(p), dt_from, dt_to, QTextOf(p))
    IN  /\ id \notin DOMAIN inflight
        /\ IF dt_from.r = "raise" \/ dt_to.r = "raise"
           THEN /\ last' = [[ReadingsAsk(p) EXCEPT !.status = 500, !.raised = TRUE]
                               EXCEPT !.op = "readings_steps"]
                /\ prev' = Store
                /\ UNCHANGED inflight
           ELSE /\ inflight' = (id :> Counted(p, S)) @@ inflight
                /\ UNCHANGED <<last, prev>>
        /\ UNCHANGED <<sensorTypes, sensors, readings, now, accVars>>

\* readings_view from `start = ...` to the response (views.py 397-414)
ReadingsSlice(id) ==
    /\ id \in DOMAIN inflight
    /\ inflight[id].kind = "readings"
    /\ LET t         == inflight[id]
           p         == t.params
           page      == PageOf(p.page)
           page_size == PageSizeOf(p.page_size)
           S         == Filtered(Store, SensorSlugOf(p), ParseIsoForDb(RawText(p.from)),
                                 ParseIsoForDb(RawText(p.to)), QTextOf(p))
           start     == (page.n - 1) * page_size
           end       == End(start, page_size)
           asked     == [op |-> "readings_steps", counted |-> t.counted]
                        @@ ReadingsAsk(p)
       IN  \/ /\ page.big
              /\ last' = [asked EXCEPT !.status = 500, !.raised = TRUE]
           \/ /\ ~page.big
              /\ \E o \in Ordered(Store, S) :
                    LET ids == Slice(o, start, end)
                    IN  last' = [asked EXCEPT
                                   !.status = 200, !.page = page.n, !.page_size = page_size,
                                   !.total = t.total, !.ids = ids,
                                   !.results = [k \in DOMAIN ids |->
                                                  NormalizeRow(Store, readings[ids[k]])],
                                   !.has_next = end < t.total, !.has_prev = start > 0]
    /\ inflight' = [o \in DOMAIN inflight \ {id} |-> inflight[o]]
    /\ prev' = Store
    /\ UNCHANGED <<sensorTypes, sensors, readings, now, accVars>>

NextSteps ==
    LET StepQueries ==
            {[NoParams EXCEPT !.page = IntParam("int", n),
                              !.page_size = IntParam("int", 1)] : n \in {1, 2}}
            \cup {[NoParams EXCEPT !.page = IntParam("bigint", 0)],
                  [NoParams EXCEPT !.from = Text("impossible", NoIso)]}
    IN  \/ \E b \in QueryBodies : IngestPost(b, 0, FALSE)
        \/ \E id \in 1..MaxInflight, p \in StepQueries : ReadingsCount(id, p)
        \/ \E id \in 1..MaxInflight : ReadingsSlice(id)

SpecSteps == Init /\ [][NextSteps]_vars

\* C24: the total and the page rows of /api/readings are read in two steps
\* between which ingests may commit; in every interleaving the response
\* holds at most page_size rows, all of them stored Readings, and total is
\* the number of rows that matched when they were counted.
C24_RowsAtMostPageSize ==
    (last.op = "readings_steps" /\ last.status = 200) =>
        /\ Len(last.ids) <= last.page_size
        /\ \A k \in DOMAIN last.ids : last.ids[k] \in DOMAIN readings
        /\ \A j, k \in DOMAIN last.ids : j # k => last.ids[j] # last.ids[k]
        /\ last.total = Cardinality(last.counted)
        /\ last.has_next <=> last.page * last.page_size < last.total

\* An ingest committed between the two steps: total counted the older
\* Reading, and the page holds the newer one, which total did not count.
C24_Witness ==
    /\ last.op = "readings_steps"
    /\ last.status = 200
    /\ last.total > 0
    /\ \E k \in DOMAIN last.ids : last.ids[k] \notin last.counted

================================================================
